---- MODULE Spec2Model ----
(***************************************************************************)
(* Model of the TTY lock screen of src/testcode.py: the controller         *)
(* TTYSafeLock (main thread), the two daemon worker threads FaceWorker     *)
(* and FingerprintWorker, the shared threading.Event unlocked_event, the   *)
(* PopupManager, and the hand-off to launch_and_exit.                      *)
(*                                                                         *)
(* Threads interleave at the points where they read or write shared state  *)
(* (the event, the stop events, the popup fields); code between two such   *)
(* points is one step.  Time is not measured: a sleep is a step boundary,  *)
(* a join timeout and the expiry of a popup are nondeterministic.          *)
(* KeyboardInterrupt is delivered where the main thread waits for input.   *)
(***************************************************************************)
EXTENDS Integers, Sequences, FiniteSets, TLC

\* ---- bounds ----
MaxFrames == 1      \* frames = max(1, int(duration * fps)) of one animation
MaxBuf == 1         \* longest password buffer typed

ShakeCycles == 10   \* shake_panel(.., cycles=10, ..)

\* ---- curses key codes and inputs ----
KEY_SPACE == 32
KEY_ESC == 27
KEY_ENTER == 10
KEY_LEFT == 260
KEY_RIGHT == 261
KEY_BACKSPACE == 263
KEY_DEL == 127

\* the keys getch() is given to return: those the handlers name, the printable
\* "a" (97) and KEY_UP (259), which no handler names
Keys == {KEY_SPACE, KEY_ESC, KEY_ENTER, KEY_LEFT, KEY_RIGHT, KEY_BACKSPACE,
         KEY_DEL, 97, 259}

\* the credential stored in PASS_FILE (salt:hash of this string): "a"
Credential == <<97>>

\* the lists list(UNLOCK_COMMANDS.keys()) can be: the two gnome entries are
\* constant non-empty strings, the kde entry depends on shutil.which
SessionLists == { <<"gnome-wayland", "gnome-x11">>,
                  <<"gnome-wayland", "gnome-x11", "kde">> }

DefaultSessions == {"auto", "gnome-x11", "kde"}

None == "None"
MSG_NO_FACES == "No known faces configured"
MSG_FPRINT == "Use fingerprint or press Space"
MSG_BAD_PASSWORD == "Incorrect password"

VARIABLES
    CONFIG,            \* enable_face_recognition, enable_fingerprint, enable_animations
    known_faces,       \* face_db.encodings is non-empty
    desktop_choices,   \* TTYSafeLock.desktop_choices
    desktop_index,     \* TTYSafeLock.desktop_index (0-based)
    password_mode,     \* TTYSafeLock.password_mode
    password_buffer,   \* TTYSafeLock.password_buffer (sequence of key codes)
    message,           \* TTYSafeLock.message
    unlocked_event,    \* TTYSafeLock.unlocked_event flag
    popup_message,     \* PopupManager.message
    popup_start_time,  \* PopupManager.start_time: None or the show call that stamped it
    pc,                \* position of the main thread
    ch,                \* key returned by stdscr.getch(), -1 once it has been dispatched
    anim,              \* <<kind, next frame index>> of the animation being played
    face_pc,           \* position of the FaceWorker thread
    face_stop,         \* FaceWorker._stop_event
    face_shown,        \* FaceWorker._shown
    cap,               \* FaceWorker.cap: "None", "open", "failed", "released"
    fp_pc,             \* position of the FingerprintWorker thread
    fp_stop,           \* FingerprintWorker._stop
    fp_shown,          \* FingerprintWorker._shown
    launched,          \* argument records of the launch_and_exit calls made
    exit_status,       \* process exit status, -1 while running
    exit_cause,        \* how the process ended
    verified,          \* history: methods whose verifier has returned true
    setters,           \* history: methods that called unlocked_event.set(), in order
    transitions,       \* history: number of clear-to-set transitions of the event
    joined,            \* history: workers on which join(timeout) has returned
    left_loop,         \* history: how the render loop was left: "event" or "interrupt"
    console,           \* history: terminal restorations and lines printed, in order
    index_error,       \* history: desktop_choices was read at an index it does not have
    shows,             \* history: number of PopupManager.show calls begun by each worker
    trail              \* history: in the handler and animation specifications,
                       \* the input the run started from, followed by the keys
                       \* given or the offsets drawn so far

mainVars == <<pc, ch, anim, password_mode, password_buffer, message, desktop_index>>
sharedVars == <<unlocked_event, popup_message, popup_start_time>>
faceVars == <<face_pc, face_shown, cap>>
fpVars == <<fp_pc, fp_shown>>
stopVars == <<face_stop, fp_stop, joined>>
endVars == <<launched, exit_status, exit_cause>>
histVars == <<verified, setters, transitions, left_loop>>
cfgVars == <<CONFIG, known_faces, desktop_choices>>
obsVars == <<console, index_error, shows, trail>>
vars == <<mainVars, sharedVars, faceVars, fpVars, stopVars, endVars, histVars, cfgVars,
          obsVars>>

\* ---- pure helpers ----

\* verify_password with PASS_FILE present: hash of salt+password equals the saved hash
verify_password(password) == password = Credential

\* __init__: index of the configured default session, 0 if it is not in the list
InitialIndex(choices, default) ==
    IF \E i \in 1..Len(choices) : choices[i] = default
    THEN (CHOOSE i \in 1..Len(choices) : choices[i] = default) - 1
    ELSE 0

\* variant: a set() that flips the flag
EventSetToggles(flag) == ~flag
\* threading.Event.set(): the flag after a set() on a flag with value flag
EventSet(flag) == TRUE

\* _on_auth_success(method, identity): only sets the event, both arguments are dropped
OnAuthSuccess(flag, method, identity) == EventSet(flag)

\* what launch_and_exit receives from run: the session key only
LaunchArgs(choice_key) == [choice_key |-> choice_key]

\* variant: the first key whatever the index
ChoiceKeyFirst(choices, index) == choices[1]
\* self.desktop_choices[self.desktop_index]
ChoiceKey(choices, index) == choices[index + 1]

\* variant: a loop test that does not read the event
LoopIgnoresEvent(flag) == TRUE
\* while not self.unlocked_event.is_set()
LoopContinues(flag) == ~flag

\* variant: no test of the event after the loop
AfterLoopAlwaysUnlocks(flag) == "stop_face"
\* if self.unlocked_event.is_set(): stop_workers(); launch...   (after the loop)
AfterLoop(flag) == IF flag THEN "stop_face" ELSE "return"

\* variant: stop_workers without its joins
StopWorkersSkipsJoin(at) ==
    CASE at = "stop_face" -> "stop_fp"
      [] at = "stop_fp" -> "launch"
      [] at = "join_face" -> "join_fp"
      [] at = "join_fp" -> "launch"
\* stop_workers then launch: stop, stop, join, join, launch
StopWorkersNext(at) ==
    CASE at = "stop_face" -> "stop_fp"
      [] at = "stop_fp" -> "join_face"
      [] at = "join_face" -> "join_fp"
      [] at = "join_fp" -> "launch"

\* variant: a worker loop that does not read its stop event
WorkerIgnoresStop(stop) == TRUE
\* while not self._stop_event.is_set()   (both workers)
WorkerContinues(stop) == ~stop

\* shake_panel's declared parameters and the keywords of the call in
\* handle_password_input; a keyword that is no parameter raises TypeError
ShakeParams == {"stdscr", "draw_fn", "cycles", "amplitude", "fps", "unlocked_event"}
ShakeCallKeywords == {"a", "e"}
CallBinds(keywords, params) == keywords \subseteq params

Unlocking == pc \in {"stop_face", "stop_fp", "join_face", "join_fp", "launch"}

\* ---- initial state: TTYSafeLock() constructed, nothing started ----
\* the main screen with no key read, no animation playing, no worker started
InitIdle ==
    /\ password_mode = FALSE
    /\ password_buffer = <<>>
    /\ message = ""
    /\ ch = -1
    /\ anim = <<None, 0>>
    /\ face_pc = "idle"
    /\ fp_pc = "idle"

InitBase ==
    /\ CONFIG \in [face : BOOLEAN, fingerprint : BOOLEAN, animations : BOOLEAN]
    /\ known_faces \in BOOLEAN
    /\ unlocked_event = FALSE
    /\ popup_message = None
    /\ popup_start_time = None
    /\ face_stop = FALSE
    /\ face_shown = FALSE
    /\ cap = None
    /\ fp_stop = FALSE
    /\ fp_shown = FALSE
    /\ launched = <<>>
    /\ exit_status = -1
    /\ exit_cause = None
    /\ verified = {}
    /\ setters = <<>>
    /\ transitions = 0
    /\ joined = {}
    /\ left_loop = None
    /\ console = <<>>
    /\ index_error = FALSE
    /\ shows = [face |-> 0, fingerprint |-> 0]

InitRest == InitBase /\ InitIdle

Init ==
    /\ desktop_choices \in SessionLists
    /\ \E d \in DefaultSessions : desktop_index = InitialIndex(desktop_choices, d)
    /\ pc = "run"
    /\ trail = <<>>
    /\ InitRest

\* ---- process end: daemon threads die with the interpreter ----
Killed(wpc) == IF wpc \in {"idle", "done"} THEN wpc ELSE "killed"

ProcessEnds(status, cause) ==
    /\ pc' = "exited"
    /\ exit_status' = status
    /\ exit_cause' = cause
    /\ face_pc' = Killed(face_pc)
    /\ fp_pc' = Killed(fp_pc)

\* an exception leaves run: curses.wrapper restores the terminal, main's
\* "except Exception" reports it and returns, the interpreter exits with 0
Crash ==
    /\ ProcessEnds(0, "error")
    /\ console' = console \o <<"wrapper_restore", "endwin", "print_error">>
    /\ UNCHANGED launched

\* the event is set by writer `method`
SetEvent(method) ==
    /\ unlocked_event' = OnAuthSuccess(unlocked_event, method, "USERNAME")
    /\ setters' = Append(setters, method)
    /\ transitions' = IF ~unlocked_event /\ unlocked_event' THEN transitions + 1
                      ELSE transitions

\* ================= main thread: TTYSafeLock.run =================

\* run: start_workers(), then play_anim(entering) inside try/except-all
StartWorkers ==
    /\ pc = "run"
    /\ pc' = "anim"
    /\ anim' = <<"initial", 0>>
    /\ face_pc' = "run"
    /\ fp_pc' = "run"
    /\ UNCHANGED <<ch, password_mode, password_buffer, message, desktop_index,
                   sharedVars, face_shown, cap, fp_shown, stopVars, endVars,
                   histVars, cfgVars, obsVars>>

\* number of frames the loop of the current animation runs:
\* range(frames + 1) in anim_slide / anim_bounce_in, range(cycles) in shake_panel
FrameCount(kind) == IF kind = "shake" THEN ShakeCycles ELSE MaxFrames + 1

\* pattern = [0, amplitude, -amplitude, amplitude // 2, -amplitude // 2, 0]
\* (// is floor division, as \div is)
ShakePattern(amplitude) ==
    <<0, amplitude, -amplitude, amplitude \div 2, (-amplitude) \div 2, 0>>

\* dx = pattern[i % len(pattern)]
ShakeOffset(amplitude, i) ==
    ShakePattern(amplitude)[(i % Len(ShakePattern(amplitude))) + 1]

\* variant: the loop draws on without looking at the event
AnimNeverAborts(event) == FALSE
\* if unlocked_event.is_set(): return     (first statement of each loop pass)
AnimAborts(event) == event

\* one pass of an animation's loop: "if unlocked_event.is_set(): return", else a
\* frame; a frame of the shake draws the panel at the next offset of the pattern
AnimFrame ==
    /\ pc = "anim"
    /\ CONFIG.animations
    /\ anim[2] < FrameCount(anim[1])
    /\ ~AnimAborts(unlocked_event)
    /\ anim' = <<anim[1], anim[2] + 1>>
    /\ trail' = IF anim[1] = "shake"
                THEN Append(trail, ShakeOffset(trail[1], anim[2]))
                ELSE trail
    /\ UNCHANGED <<pc, ch, password_mode, password_buffer, message, desktop_index,
                   sharedVars, faceVars, fpVars, stopVars, endVars, histVars, cfgVars,
                   console, index_error, shows>>

\* variant: an exit animation cut short by the event leaves the mode alone
EntersUnlessAborted(kind, aborted) == kind = "out" /\ ~aborted
\* handle_main_input: the assignments after play_anim(.., False, ..) run however
\* the animation returned
EntersPasswordEntry(kind, aborted) == kind = "out"

\* the animation returns (disabled, all frames done, or aborted by the event) and
\* the handler that played it finishes
AnimEnd ==
    /\ pc = "anim"
    /\ ch' = -1
    /\ \/ ~CONFIG.animations
       \/ anim[2] >= FrameCount(anim[1])
       \/ AnimAborts(unlocked_event)
    /\ pc' = "loop"
    /\ anim' = <<None, 0>>
    /\ trail' = IF anim[1] = "shake" /\ ~CONFIG.animations
                THEN Append(trail, 0)      \* shake_panel: draw_fn(0, 0); return
                ELSE trail
    /\ IF EntersPasswordEntry(anim[1], unlocked_event)
       THEN password_mode' = TRUE /\ password_buffer' = <<>> /\ message' = ""
       ELSE IF anim[1] = "shake"
       THEN password_buffer' = <<>> /\ UNCHANGED <<password_mode, message>>
       ELSE UNCHANGED <<password_mode, password_buffer, message>>
    /\ UNCHANGED <<desktop_index, sharedVars, faceVars, fpVars, stopVars,
                   endVars, histVars, cfgVars, console, index_error, shows>>

\* while not self.unlocked_event.is_set():
LoopTop ==
    /\ pc = "loop"
    /\ pc' = IF LoopContinues(unlocked_event) THEN "render" ELSE "after_loop"
    /\ left_loop' = IF LoopContinues(unlocked_event) THEN left_loop ELSE "event"
    /\ UNCHANGED <<ch, anim, password_mode, password_buffer, message, desktop_index,
                   sharedVars, faceVars, fpVars, stopVars, endVars, verified, setters,
                   transitions, cfgVars, obsVars>>

\* variant: only 7-bit codes count as printable
PrintableAscii(k) == 32 <= k /\ k < 128
\* elif 32<=ch<256
Printable(k) == 32 <= k /\ k < 256
\* elif ch in(curses.KEY_BACKSPACE,127,8)
IsBackspace(k) == k \in {KEY_BACKSPACE, KEY_DEL, 8}
\* elif ch in(10,13)
IsEnter(k) == k \in {KEY_ENTER, 13}

\* variant: the list is read without the test
ReadsChoiceAlways(choices) == TRUE
\* if self.desktop_choices:   (before each read of desktop_choices[desktop_index])
ReadsChoice(choices) == choices # <<>>

\* desktop_choices[desktop_index] raises IndexError
BadIndex(choices, index) == index + 1 \notin DOMAIN choices

\* draw_main_screen: if self.desktop_choices: ... desktop_choices[desktop_index]
DrawReadsBadIndex ==
    /\ ~password_mode
    /\ ReadsChoice(desktop_choices)
    /\ BadIndex(desktop_choices, desktop_index)

\* erase, draw the panel of the mode, popup.render, refresh.
\* PopupManager.render: no message -> return; older than 1.0 -> message = None;
\* otherwise draw it
Render ==
    /\ pc = "render"
    /\ popup_message = None \/ popup_start_time # None
    /\ pc' = "getch"
    /\ \E expired \in BOOLEAN :
          popup_message' = IF popup_message # None /\ expired THEN None
                           ELSE popup_message
    /\ index_error' = (index_error \/ DrawReadsBadIndex)
    /\ UNCHANGED <<ch, anim, password_mode, password_buffer, message, desktop_index,
                   unlocked_event, popup_start_time, faceVars, fpVars, stopVars,
                   endVars, histVars, cfgVars, console, shows, trail>>

\* PopupManager.render with a message whose start_time is still None:
\* time.time() - None raises TypeError, which leaves run
RenderCrash ==
    /\ pc = "render"
    /\ popup_message # None /\ popup_start_time = None
    /\ Crash
    /\ UNCHANGED <<ch, anim, password_mode, password_buffer, message, desktop_index,
                   sharedVars, face_shown, cap, fp_shown, stopVars, histVars, cfgVars,
                   index_error, shows, trail>>

\* getch() == -1: sleep 0.05 and continue
GetchNone ==
    /\ pc = "getch"
    /\ pc' = "loop"
    /\ ch' = -1
    /\ UNCHANGED <<anim, password_mode, password_buffer, message, desktop_index,
                   sharedVars, faceVars, fpVars, stopVars, endVars, histVars, cfgVars, obsVars>>

\* getch() returns a key (a printable key is not offered to a full buffer)
GetchKey ==
    /\ pc = "getch"
    /\ \E k \in Keys :
          /\ ~(password_mode /\ Printable(k) /\ ~IsBackspace(k) /\ k # KEY_ESC
               /\ ~IsEnter(k) /\ Len(password_buffer) >= MaxBuf)
          /\ ch' = k
    /\ pc' = "handle"
    /\ UNCHANGED <<anim, password_mode, password_buffer, message, desktop_index,
                   sharedVars, faceVars, fpVars, stopVars, endVars, histVars, cfgVars, obsVars>>

\* except KeyboardInterrupt: break
Interrupt ==
    /\ pc = "getch"
    /\ pc' = "after_loop"
    /\ left_loop' = "interrupt"
    /\ UNCHANGED <<ch, anim, password_mode, password_buffer, message, desktop_index,
                   sharedVars, faceVars, fpVars, stopVars, endVars, verified, setters,
                   transitions, cfgVars, obsVars>>

\* variant: Left that stops at the first session instead of wrapping
NavLeftClamps(index, choices) == IF index > 0 THEN index - 1 ELSE 0
\* (self.desktop_index-1)%len(self.desktop_choices) if self.desktop_choices else 0
NavLeft(index, choices) ==
    IF choices # <<>> THEN (index - 1) % Len(choices) ELSE 0
\* (self.desktop_index+1)%len(self.desktop_choices) if self.desktop_choices else 0
NavRight(index, choices) ==
    IF choices # <<>> THEN (index + 1) % Len(choices) ELSE 0

\* variant: the main-screen handler is given the key in either mode
MainHandlesAlways(mode) == TRUE
\* handle_input: if self.password_mode: handle_password_input(..)
\*               else: handle_main_input(..)
MainHandles(mode) == ~mode

\* handle_main_input
HandleMainInput ==
    /\ pc = "handle"
    /\ ch' = -1
    /\ MainHandles(password_mode)
    /\ IF ch = KEY_SPACE
       THEN /\ pc' = "anim"
            /\ anim' = <<"out", 0>>
            /\ UNCHANGED desktop_index
       ELSE /\ pc' = "loop"
            /\ anim' = anim
            /\ desktop_index' =
                  IF ch = KEY_LEFT THEN NavLeft(desktop_index, desktop_choices)
                  ELSE IF ch = KEY_RIGHT THEN NavRight(desktop_index, desktop_choices)
                  ELSE desktop_index
    /\ UNCHANGED <<password_mode, password_buffer, message, sharedVars, faceVars,
                   fpVars, stopVars, endVars, histVars, cfgVars, obsVars>>

\* variant: backspace clears the whole buffer
DropAll(buffer) == <<>>
\* self.password_buffer[:-1]
DropLast(buffer) == SubSeq(buffer, 1, Len(buffer) - 1)

\* variant: Escape leaves what was typed in the buffer
EscapeKeepsBuffer(buffer) == buffer
\* if ch==27: ... self.password_buffer=""
EscapeBuffer(buffer) == <<>>

\* handle_password_input, every key but Enter
HandlePasswordKey ==
    /\ pc = "handle"
    /\ ch' = -1
    /\ password_mode
    /\ ~IsEnter(ch)
    /\ IF ch = KEY_ESC
       THEN /\ password_mode' = FALSE
            /\ password_buffer' = EscapeBuffer(password_buffer)
            /\ message' = ""
            /\ pc' = "anim"
            /\ anim' = <<"in", 0>>
       ELSE /\ pc' = "loop"
            /\ password_buffer' =
                  IF IsBackspace(ch)
                  THEN DropLast(password_buffer)
                  ELSE IF Printable(ch) THEN Append(password_buffer, ch)
                  ELSE password_buffer
            /\ UNCHANGED <<password_mode, message, anim>>
    /\ UNCHANGED <<desktop_index, sharedVars, faceVars, fpVars, stopVars,
                   endVars, histVars, cfgVars, obsVars>>

\* handle_password_input, Enter with the right password: _on_auth_success("password", ..)
HandlePasswordAccept ==
    /\ pc = "handle"
    /\ ch' = -1
    /\ password_mode
    /\ IsEnter(ch)
    /\ verify_password(password_buffer)
    /\ verified' = verified \cup {"password"}
    /\ SetEvent("password")
    /\ pc' = "loop"
    /\ UNCHANGED <<anim, password_mode, password_buffer, message, desktop_index,
                   popup_message, popup_start_time, faceVars, fpVars, stopVars,
                   endVars, left_loop, cfgVars, obsVars>>

\* handle_password_input, Enter with a wrong password: the message is set, then
\* shake_panel(..., a=..., e=...) is called; password_buffer = "" follows the call
HandlePasswordReject ==
    /\ pc = "handle"
    /\ password_mode
    /\ IsEnter(ch)
    /\ ~verify_password(password_buffer)
    /\ message' = MSG_BAD_PASSWORD
    /\ IF CallBinds(ShakeCallKeywords, ShakeParams)
       THEN /\ pc' = "anim"
            /\ anim' = <<"shake", 0>>
            /\ UNCHANGED <<face_pc, fp_pc, endVars, console>>
       ELSE /\ Crash
            /\ anim' = anim
    /\ UNCHANGED <<ch, password_mode, password_buffer, desktop_index, sharedVars,
                   face_shown, cap, fp_shown, stopVars, histVars, cfgVars,
                   index_error, shows, trail>>

\* after the loop: if self.unlocked_event.is_set(): ... ; otherwise run returns,
\* main returns and the process ends with status 0
AfterLoopStep ==
    /\ pc = "after_loop"
    /\ IF AfterLoop(unlocked_event) = "return"
       THEN /\ ProcessEnds(0, "return")
            /\ console' = Append(console, "wrapper_restore")
       ELSE /\ pc' = AfterLoop(unlocked_event)
            /\ UNCHANGED <<face_pc, fp_pc, exit_status, exit_cause, console>>
    /\ UNCHANGED <<ch, anim, password_mode, password_buffer, message, desktop_index,
                   sharedVars, face_shown, cap, fp_shown, stopVars, launched,
                   histVars, cfgVars, index_error, shows, trail>>

\* stop_workers: self.face_worker.stop()
StopFace ==
    /\ pc = "stop_face"
    /\ face_stop' = TRUE
    /\ pc' = StopWorkersNext(pc)
    /\ UNCHANGED <<ch, anim, password_mode, password_buffer, message, desktop_index,
                   sharedVars, faceVars, fpVars, fp_stop, joined, endVars, histVars,
                   cfgVars, obsVars>>

\* stop_workers: self.fprint_worker.stop()
StopFprint ==
    /\ pc = "stop_fp"
    /\ fp_stop' = TRUE
    /\ pc' = StopWorkersNext(pc)
    /\ UNCHANGED <<ch, anim, password_mode, password_buffer, message, desktop_index,
                   sharedVars, faceVars, fpVars, face_stop, joined, endVars, histVars,
                   cfgVars, obsVars>>

\* stop_workers: self.face_worker.join(timeout=1.0) returns, the thread ended or not
JoinFace ==
    /\ pc = "join_face"
    /\ joined' = joined \cup {"face"}
    /\ pc' = StopWorkersNext(pc)
    /\ UNCHANGED <<ch, anim, password_mode, password_buffer, message, desktop_index,
                   sharedVars, faceVars, fpVars, face_stop, fp_stop, endVars,
                   histVars, cfgVars, obsVars>>

\* stop_workers: self.fprint_worker.join(timeout=1.0) returns
JoinFprint ==
    /\ pc = "join_fp"
    /\ joined' = joined \cup {"fingerprint"}
    /\ pc' = StopWorkersNext(pc)
    /\ UNCHANGED <<ch, anim, password_mode, password_buffer, message, desktop_index,
                   sharedVars, faceVars, fpVars, face_stop, fp_stop, endVars,
                   histVars, cfgVars, obsVars>>

\* the keys of UNLOCK_COMMANDS
UnlockCommandKeys == {desktop_choices[i] : i \in 1..Len(desktop_choices)}

\* if self.desktop_choices: launch_and_exit(choices[index])
\* else: curses.endwin(); print("Auth OK, but no sessions found."); sys.exit(0).
\* launch_and_exit restores the terminal; unknown key -> message, sys.exit(1);
\* else message, Popen and sys.exit(0).
\* main catches SystemExit and returns, so the process status is 0 either way.
Launch ==
    /\ pc = "launch"
    /\ IF ReadsChoice(desktop_choices)
       THEN IF BadIndex(desktop_choices, desktop_index)
            THEN /\ index_error' = TRUE
                 /\ Crash
            ELSE LET key == ChoiceKey(desktop_choices, desktop_index) IN
                 /\ index_error' = index_error
                 /\ IF key \in UnlockCommandKeys
                    THEN /\ launched' = Append(launched, LaunchArgs(key))
                         /\ console' = console \o <<"restore", "print_launching",
                                                    "wrapper_restore">>
                         /\ ProcessEnds(0, "launch")
                    ELSE /\ launched' = launched
                         /\ console' = console \o <<"restore", "print_no_command",
                                                    "wrapper_restore", "print_exit_code">>
                         /\ ProcessEnds(0, "no_command")
       ELSE /\ launched' = launched
            /\ index_error' = index_error
            /\ console' = console \o <<"endwin", "print_no_sessions", "wrapper_restore">>
            /\ ProcessEnds(0, "no_sessions")
    /\ UNCHANGED <<ch, anim, password_mode, password_buffer, message, desktop_index,
                   sharedVars, face_shown, cap, fp_shown, stopVars, histVars, cfgVars,
                   shows, trail>>

Main ==
    \/ StartWorkers \/ AnimFrame \/ AnimEnd \/ LoopTop \/ Render \/ RenderCrash
    \/ GetchNone \/ GetchKey \/ Interrupt
    \/ HandleMainInput \/ HandlePasswordKey \/ HandlePasswordAccept
    \/ HandlePasswordReject \/ AfterLoopStep
    \/ StopFace \/ StopFprint \/ JoinFace \/ JoinFprint \/ Launch

\* ================= FaceWorker.run =================

\* if not ENABLE_FACE: return
FaceDisabled ==
    /\ face_pc = "run"
    /\ ~CONFIG.face
    /\ face_pc' = "done"
    /\ UNCHANGED <<mainVars, sharedVars, face_shown, cap, fpVars, stopVars, endVars,
                   histVars, cfgVars, obsVars>>

\* variant: the loop is entered whether or not the camera opened
AfterOpenAlwaysLoops(opened) == "loop"
\* if not self.cap.isOpened(): return
AfterOpen(opened) == IF opened THEN "loop" ELSE "done"

\* self.cap = cv2.VideoCapture(CAMERA_INDEX); if not self.cap.isOpened(): return
FaceOpenCamera ==
    /\ face_pc = "run"
    /\ CONFIG.face
    /\ \E opened \in BOOLEAN :
          /\ cap' = IF opened THEN "open" ELSE "failed"
          /\ face_pc' = AfterOpen(opened)
    /\ UNCHANGED <<mainVars, sharedVars, face_shown, fpVars, stopVars, endVars,
                   histVars, cfgVars, obsVars>>

\* while not self._stop_event.is_set():  (a set event leads to the finally block)
FaceLoop ==
    /\ face_pc = "loop"
    /\ face_pc' = IF WorkerContinues(face_stop) THEN "body" ELSE "finally"
    /\ UNCHANGED <<mainVars, sharedVars, face_shown, cap, fpVars, stopVars, endVars,
                   histVars, cfgVars, obsVars>>

\* one iteration up to its first shared write: cap.read(), the comparison against
\* the known faces, the sleep.  Outcomes: no frame / no match (sleep, next
\* iteration), a match, the first pass with no known faces (popup), an exception
FaceOutcomes == {"no_frame", "no_match", "match", "error"}

\* variant: the hint is posted on every failed pass
ShowsHintAlways(shown) == TRUE
\* elif not self._shown: self.popup.show(..); self._shown = True
ShowsHint(shown) == ~shown

FaceBody ==
    /\ face_pc = "body"
    /\ \E outcome \in FaceOutcomes :
          /\ outcome = "match" => known_faces
          /\ face_pc' = CASE outcome = "error" -> "finally"
                          [] outcome = "no_frame" -> "loop"
                          [] outcome = "match" -> "signal"
                          [] outcome = "no_match" ->
                               IF ~known_faces /\ ShowsHint(face_shown)
                               THEN "show" ELSE "loop"
          /\ verified' = IF outcome = "match" THEN verified \cup {"face"} ELSE verified
    /\ UNCHANGED <<mainVars, sharedVars, face_shown, cap, fpVars, stopVars, endVars,
                   setters, transitions, left_loop, cfgVars, obsVars>>

\* self.on_success("face", USERNAME); return
FaceSignal ==
    /\ face_pc = "signal"
    /\ SetEvent("face")
    /\ face_pc' = "finally"
    /\ UNCHANGED <<mainVars, popup_message, popup_start_time, face_shown, cap, fpVars,
                   stopVars, endVars, verified, left_loop, cfgVars, obsVars>>

\* PopupManager.show, first statement: self.message = msg
FaceShowMessage ==
    /\ face_pc = "show"
    /\ popup_message' = MSG_NO_FACES
    /\ face_pc' = "stamp"
    /\ shows' = [shows EXCEPT !.face = @ + 1]
    /\ UNCHANGED <<mainVars, unlocked_event, popup_start_time, face_shown, cap, fpVars,
                   stopVars, endVars, histVars, cfgVars,
                   console, index_error, trail>>

\* PopupManager.show, second statement: self.start_time = time.time();
\* then self._shown = True and the sleep
FaceShowStamp ==
    /\ face_pc = "stamp"
    /\ popup_start_time' = "face"
    /\ face_shown' = TRUE
    /\ face_pc' = "loop"
    /\ UNCHANGED <<mainVars, unlocked_event, popup_message, cap, fpVars, stopVars,
                   endVars, histVars, cfgVars, obsVars>>

\* finally: if self.cap and self.cap.isOpened(): self.cap.release()
FaceFinally ==
    /\ face_pc = "finally"
    /\ cap' = IF cap = "open" THEN "released" ELSE cap
    /\ face_pc' = "done"
    /\ UNCHANGED <<mainVars, sharedVars, face_shown, fpVars, stopVars, endVars,
                   histVars, cfgVars, obsVars>>

Face ==
    \/ FaceDisabled \/ FaceOpenCamera \/ FaceLoop \/ FaceBody \/ FaceSignal
    \/ FaceShowMessage \/ FaceShowStamp \/ FaceFinally

\* ================= FingerprintWorker.run =================

\* if not ENABLE_FINGERPRINT: return
FprintDisabled ==
    /\ fp_pc = "run"
    /\ ~CONFIG.fingerprint
    /\ fp_pc' = "done"
    /\ UNCHANGED <<mainVars, sharedVars, faceVars, fp_shown, stopVars, endVars,
                   histVars, cfgVars, obsVars>>

\* entering the loop
FprintEnabled ==
    /\ fp_pc = "run"
    /\ CONFIG.fingerprint
    /\ fp_pc' = "loop"
    /\ UNCHANGED <<mainVars, sharedVars, faceVars, fp_shown, stopVars, endVars,
                   histVars, cfgVars, obsVars>>

\* while not self._stop.is_set():
FprintLoop ==
    /\ fp_pc = "loop"
    /\ fp_pc' = IF WorkerContinues(fp_stop) THEN "body" ELSE "done"
    /\ UNCHANGED <<mainVars, sharedVars, faceVars, fp_shown, stopVars, endVars,
                   histVars, cfgVars, obsVars>>

\* fingerprint_verify(USERNAME, timeout=10) returns; on False the hint is shown
\* once, then sleep(1)
FprintBody ==
    /\ fp_pc = "body"
    /\ \E ok \in BOOLEAN :
          /\ fp_pc' = IF ok THEN "signal"
                      ELSE IF ShowsHint(fp_shown) THEN "show" ELSE "loop"
          /\ verified' = IF ok THEN verified \cup {"fingerprint"} ELSE verified
    /\ UNCHANGED <<mainVars, sharedVars, faceVars, fp_shown, stopVars, endVars,
                   setters, transitions, left_loop, cfgVars, obsVars>>

\* self.on_success("fingerprint", USERNAME); return
FprintSignal ==
    /\ fp_pc = "signal"
    /\ SetEvent("fingerprint")
    /\ fp_pc' = "done"
    /\ UNCHANGED <<mainVars, popup_message, popup_start_time, faceVars, fp_shown,
                   stopVars, endVars, verified, left_loop, cfgVars, obsVars>>

\* PopupManager.show, first statement
FprintShowMessage ==
    /\ fp_pc = "show"
    /\ popup_message' = MSG_FPRINT
    /\ fp_pc' = "stamp"
    /\ shows' = [shows EXCEPT !.fingerprint = @ + 1]
    /\ UNCHANGED <<mainVars, unlocked_event, popup_start_time, faceVars, fp_shown,
                   stopVars, endVars, histVars, cfgVars,
                   console, index_error, trail>>

\* PopupManager.show, second statement; then self._shown = True and sleep(1)
FprintShowStamp ==
    /\ fp_pc = "stamp"
    /\ popup_start_time' = "fingerprint"
    /\ fp_shown' = TRUE
    /\ fp_pc' = "loop"
    /\ UNCHANGED <<mainVars, unlocked_event, popup_message, faceVars, stopVars,
                   endVars, histVars, cfgVars, obsVars>>

Fprint ==
    \/ FprintDisabled \/ FprintEnabled \/ FprintLoop \/ FprintBody \/ FprintSignal
    \/ FprintShowMessage \/ FprintShowStamp

Next == Main \/ Face \/ Fprint

Spec == Init /\ [][Next]_vars

\* the scheduler runs every thread that can run; external calls return
FairSpec == Spec /\ WF_vars(Main) /\ WF_vars(Face) /\ WF_vars(Fprint)

TypeOK ==
    /\ pc \in {"run", "anim", "loop", "render", "getch", "handle", "after_loop",
               "stop_face", "stop_fp", "join_face", "join_fp", "launch", "exited"}
    /\ ch \in Keys \cup {-1}
    /\ desktop_index \in 0..(Len(desktop_choices) - 1)
    /\ Len(password_buffer) <= MaxBuf
    /\ unlocked_event \in BOOLEAN
    /\ popup_message \in {None, MSG_NO_FACES, MSG_FPRINT}
    /\ popup_start_time \in {None, "face", "fingerprint"}
    /\ face_pc \in {"idle", "run", "loop", "body", "signal", "show", "stamp",
                    "finally", "done", "killed"}
    /\ fp_pc \in {"idle", "run", "loop", "body", "signal", "show", "stamp", "done",
                  "killed"}
    /\ cap \in {None, "open", "failed", "released"}

\* ================= the controller over any session table =================

\* UNLOCK_COMMANDS taken as an input of main and of the controller: the tables
\* above and the empty one.  The filter of line 115 yields the empty table when
\* no entry has a command; with the two literal gnome entries of lines 109-110
\* that does not happen in a run of this file as it stands, only when the
\* table is replaced.
AllSessionLists == SessionLists \cup {<<>>}

\* TTYSafeLock() constructed over any table, main's test of the table left out
ControllerInit ==
    /\ desktop_choices \in AllSessionLists
    /\ \E d \in DefaultSessions : desktop_index = InitialIndex(desktop_choices, d)
    /\ pc = "run"
    /\ trail = <<>>
    /\ InitRest

ControllerSpec == ControllerInit /\ [][Next]_vars

\* ================= main() from its first statement =================

\* variant: main without its test of the table
NoSessionsNever(choices) == FALSE
\* if not UNLOCK_COMMANDS:
NoSessions(choices) == choices = <<>>

StartInit ==
    /\ desktop_choices \in AllSessionLists
    /\ desktop_index = 0
    /\ pc = "main"
    /\ trail = <<>>
    /\ InitRest

\* main: no sessions -> message and sys.exit(1), outside the try;
\* otherwise TTYSafeLock() is constructed and handed to curses.wrapper
MainStart ==
    /\ pc = "main"
    /\ IF NoSessions(desktop_choices)
       THEN /\ ProcessEnds(1, "no_sessions_at_start")
            /\ console' = Append(console, "print_no_launchable")
            /\ UNCHANGED desktop_index
       ELSE /\ pc' = "run"
            /\ \E d \in DefaultSessions :
                  desktop_index' = InitialIndex(desktop_choices, d)
            /\ UNCHANGED <<face_pc, fp_pc, exit_status, exit_cause, console>>
    /\ UNCHANGED <<ch, anim, password_mode, password_buffer, message, sharedVars,
                   face_shown, cap, fp_shown, stopVars, launched, histVars, cfgVars,
                   index_error, shows, trail>>

StartNext == MainStart \/ Next

StartSpec == StartInit /\ [][StartNext]_vars

\* ================= the program with the default configuration's session =================

\* Init with default_session "auto", which is no key of UNLOCK_COMMANDS: the
\* index starts at 0
AutoInit ==
    /\ desktop_choices \in SessionLists
    /\ desktop_index = InitialIndex(desktop_choices, "auto")
    /\ pc = "run"
    /\ trail = <<>>
    /\ InitRest

AutoSpec == AutoInit /\ [][Next]_vars

\* ================= handle_main_input on its own =================

MaxPresses == 3     \* bound: keys given in one run of the navigation specification

\* tables of every length up to the three entries of UNLOCK_COMMANDS
NavLists == {SubSeq(<<"gnome-wayland", "gnome-x11", "kde">>, 1, n) : n \in 0..3}

\* MainScreen with any table and any index __init__ or navigation can leave
NavInit ==
    /\ desktop_choices \in NavLists
    /\ desktop_index \in IF desktop_choices = <<>> THEN {0}
                          ELSE 0..(Len(desktop_choices) - 1)
    /\ trail = <<desktop_index>>
    /\ pc = "getch"
    /\ InitRest

\* getch() returns Left or Right
NavGetch ==
    /\ pc = "getch"
    /\ Len(trail) <= MaxPresses
    /\ \E k \in {KEY_LEFT, KEY_RIGHT} :
          /\ ch' = k
          /\ trail' = Append(trail, k)
    /\ pc' = "handle"
    /\ UNCHANGED <<anim, password_mode, password_buffer, message, desktop_index,
                   sharedVars, faceVars, fpVars, stopVars, endVars, histVars, cfgVars,
                   console, index_error, shows>>

NavNext == NavGetch \/ HandleMainInput \/ LoopTop \/ Render

NavSpec == NavInit /\ [][NavNext]_vars

\* ================= handle_password_input on its own =================

MaxTyped == 5       \* bound: keys given to the password panel in one run

\* every code getch() can return up to KEY_BACKSPACE, but Enter and Escape
PwCodes == (0..KEY_BACKSPACE) \ {KEY_ESC, KEY_ENTER, 13}

\* the keys that may be followed by further keys: a, b, c and backspace
PwKeys == {97, 98, 99, KEY_BACKSPACE}

\* the main screen before any key; the workers have not been scheduled and the
\* default session is not in the table
PwInit ==
    /\ desktop_choices \in SessionLists
    /\ desktop_index = InitialIndex(desktop_choices, "auto")
    /\ pc = "getch"
    /\ trail = <<>>
    /\ InitRest
    /\ ~CONFIG.face /\ ~CONFIG.fingerprint /\ ~known_faces

\* getch() returns Space on the main screen, then keys for the password panel
PwGetch ==
    /\ pc = "getch"
    /\ IF ~password_mode
       THEN /\ trail = <<>>
            /\ ch' = KEY_SPACE
       ELSE /\ Len(trail) <= MaxTyped
            /\ \A i \in 2..Len(trail) : trail[i] \in PwKeys
            /\ ch' \in PwCodes
    /\ trail' = Append(trail, ch')
    /\ pc' = "handle"
    /\ UNCHANGED <<anim, password_mode, password_buffer, message, desktop_index,
                   sharedVars, faceVars, fpVars, stopVars, endVars, histVars, cfgVars,
                   console, index_error, shows>>

PwNext ==
    \/ PwGetch
    \/ HandleMainInput
    \/ AnimFrame
    \/ AnimEnd
    \/ HandlePasswordKey
    \/ LoopTop
    \/ Render

PwSpec == PwInit /\ [][PwNext]_vars

\* ================= the animations on their own =================

\* the values given for SHAKE_AMPLITUDE = int(CONFIG["shake_intensity"])
Amplitudes == 0..10

\* An animation has just been entered: the entry bounce after Escape, the exit
\* slide after Space, or shake_panel called with amplitude trail[1] and with
\* unlocked_event bound to the signal.  The face factor is disabled and its
\* worker has returned; the fingerprint worker has been started.
AnimInit ==
    /\ desktop_choices \in SessionLists
    /\ desktop_index = InitialIndex(desktop_choices, "auto")
    /\ InitBase
    /\ ~CONFIG.face /\ ~known_faces
    /\ face_pc = "done"
    /\ fp_pc = "run"
    /\ pc = "anim"
    /\ password_buffer = <<>>
    /\ \E kind \in {"in", "out", "shake"} :
          /\ anim = <<kind, 0>>
          /\ password_mode = (kind = "shake")
          /\ message = IF kind = "shake" THEN MSG_BAD_PASSWORD ELSE ""
          /\ ch = CASE kind = "in" -> KEY_ESC
                    [] kind = "out" -> KEY_SPACE
                    [] kind = "shake" -> KEY_ENTER
          /\ IF kind = "shake" THEN \E a \in Amplitudes : trail = <<a>>
             ELSE trail = <<>>

AnimNext == AnimFrame \/ AnimEnd \/ Fprint

AnimSpec == AnimInit /\ [][AnimNext]_vars

\* ================= the easing functions =================

MaxGrid == 30       \* bound: largest frames = max(1, int(duration * fps)) tried

\* The easing functions on the grid t = i / frames, in exact arithmetic: t is the
\* pair (i, frames) and a result is its numerator over a fixed denominator.

\* t = max(0.0, min(1.0, t))
Clamp(i, frames) == IF i < 0 THEN 0 ELSE IF i > frames THEN frames ELSE i

\* _ease_out_cubic: 1 - (1 - t) ** 3, as a multiple of 1 / frames^3
ease_out_cubic(i, frames) ==
    LET c == Clamp(i, frames)
    IN  frames * frames * frames - (frames - c) * (frames - c) * (frames - c)

\* variant: the last branch forgets "t -= 2.625 / d1"
ease_out_bounce_unshifted(i, frames) ==
    LET c == Clamp(i, frames)
    IN  IF 11 * c < 4 * frames THEN 4 * 121 * c * c
        ELSE IF 11 * c < 8 * frames
        THEN 4 * ((11 * c - 6 * frames) * (11 * c - 6 * frames) + 12 * frames * frames)
        ELSE IF 11 * c < 10 * frames
        THEN 4 * ((11 * c - 9 * frames) * (11 * c - 9 * frames) + 15 * frames * frames)
        ELSE 4 * 121 * c * c + 63 * frames * frames
\* _ease_out_bounce with n1 = 7.5625 = 121/16 and d1 = 2.75 = 11/4, as a multiple
\* of 1 / (64 * frames^2):
\*   t < 1/d1   : n1*t*t                        t < 4/11
\*   t < 2/d1   : t -= 1.5/d1;   n1*t*t + 0.75      (t - 6/11, + 3/4)
\*   t < 2.5/d1 : t -= 2.25/d1;  n1*t*t + 0.9375    (t - 9/11, + 15/16)
\*   else       : t -= 2.625/d1; n1*t*t + 0.984375  (t - 21/22, + 63/64)
ease_out_bounce(i, frames) ==
    LET c == Clamp(i, frames)
    IN  IF 11 * c < 4 * frames THEN 4 * 121 * c * c
        ELSE IF 11 * c < 8 * frames
        THEN 4 * ((11 * c - 6 * frames) * (11 * c - 6 * frames) + 12 * frames * frames)
        ELSE IF 11 * c < 10 * frames
        THEN 4 * ((11 * c - 9 * frames) * (11 * c - 9 * frames) + 15 * frames * frames)
        ELSE (22 * c - 21 * frames) * (22 * c - 21 * frames) + 63 * frames * frames

\* an entry ("in", bounce) or exit ("out", cubic) animation of trail[1] frames has
\* just been entered; both factors are disabled and their workers have returned
EaseInit ==
    /\ desktop_choices \in SessionLists
    /\ desktop_index = InitialIndex(desktop_choices, "auto")
    /\ InitBase
    /\ CONFIG.animations /\ ~CONFIG.face /\ ~CONFIG.fingerprint /\ ~known_faces
    /\ face_pc = "done"
    /\ fp_pc = "done"
    /\ pc = "anim"
    /\ password_mode = FALSE
    /\ password_buffer = <<>>
    /\ message = ""
    /\ \E kind \in {"in", "out"} :
          /\ anim = <<kind, 0>>
          /\ ch = IF kind = "in" THEN KEY_ESC ELSE KEY_SPACE
    /\ \E frames \in 1..MaxGrid : trail = <<frames>>

\* one pass of "for i in range(frames + 1)": t = i / frames; e = _ease_out_..(t)
EaseFrame ==
    /\ pc = "anim"
    /\ anim[2] <= trail[1]
    /\ ~AnimAborts(unlocked_event)
    /\ trail' = Append(trail, IF anim[1] = "in"
                              THEN ease_out_bounce(anim[2], trail[1])
                              ELSE ease_out_cubic(anim[2], trail[1]))
    /\ anim' = <<anim[1], anim[2] + 1>>
    /\ UNCHANGED <<pc, ch, password_mode, password_buffer, message, desktop_index,
                   sharedVars, faceVars, fpVars, stopVars, endVars, histVars, cfgVars,
                   console, index_error, shows>>

EaseSpec == EaseInit /\ [][EaseFrame]_vars

\* ================= properties =================

\* C1: the session launcher is invoked only with the unlock signal set, and the
\* signal is set only by a writer whose verifier (face comparison,
\* fingerprint_verify, verify_password) has returned true before.
LaunchOnlyAfterVerification ==
    /\ launched # <<>> => unlocked_event
    /\ unlocked_event => setters # <<>>
    /\ \A i \in 1..Len(setters) : setters[i] \in verified

\* a launch that followed a password typed and accepted in PasswordEntry
LaunchedAfterPassword ==
    /\ launched # <<>>
    /\ setters = <<"password">>
    /\ password_mode

\* C2: the unlock signal is a latch: clear when the controller is created, and
\* once set it is set in every later state, whichever thread takes the step.
UnlockIsLatch == ~unlocked_event /\ [][unlocked_event => unlocked_event']_vars

\* all three writers have set the signal and it is still set
ThreeWritersStillSet == unlocked_event /\ Len(setters) = 3

\* C3: exactly one attempt performs the Locked-to-Unlocked transition, later
\* attempts change nothing, and the launcher is handed the method of the writer
\* that transitioned first.
FirstWriterHandedOn ==
    /\ transitions <= 1
    /\ unlocked_event => transitions = 1
    /\ \A i \in 1..Len(launched) :
          /\ "method" \in DOMAIN launched[i]
          /\ launched[i].method = setters[1]

\* C4: Enter on a rejected password sets the message, plays the error shake,
\* leaves the controller in PasswordEntry with the signal unchanged, and the
\* process keeps running.
RejectedEnter ==
    /\ pc = "handle"
    /\ password_mode
    /\ IsEnter(ch)
    /\ ~verify_password(password_buffer)
    /\ pc' # pc

RejectShakesAndContinues ==
    [][RejectedEnter =>
          /\ message' = MSG_BAD_PASSWORD
          /\ pc' = "anim" /\ anim'[1] = "shake"
          /\ password_mode'
          /\ unlocked_event' = unlocked_event
          /\ exit_status' = -1]_vars

\* C5: once the unlock signal is set, the controller does not end without having
\* invoked the session launcher.
UnlockEndsInLaunch == (unlocked_event /\ pc = "exited") => launched # <<>>

\* C6: the launcher is never invoked while the face worker holds the opened camera.
NoLaunchWhileCameraHeld == launched # <<>> => cap # "open"

\* C7: the launcher is invoked only after stop has been requested on both workers
\* and a join has then been attempted on each of them.
StopJoinBeforeLaunch ==
    /\ joined # {} => (face_stop /\ fp_stop)
    /\ (pc = "launch" \/ launched # <<>>) =>
          (face_stop /\ fp_stop /\ joined = {"face", "fingerprint"})

\* the launcher has run while a worker had been stopped in mid-iteration
LaunchedAfterStopJoin ==
    /\ launched # <<>>
    /\ joined = {"face", "fingerprint"}
    /\ fp_pc = "killed"

\* C8: once stop is requested a worker enters no further iteration and its
\* thread ends; a face worker thread that ran to its end after opening the
\* camera has released it.
NoIterationAfterStop ==
    /\ (face_stop /\ face_pc # "body") => face_pc' # "body"
    /\ (fp_stop /\ fp_pc # "body") => fp_pc' # "body"

WorkersStopAndRelease ==
    /\ [][NoIterationAfterStop]_vars
    /\ [](face_pc = "done" => cap # "open")
    /\ (face_stop ~> face_pc \in {"done", "killed"})
    /\ (fp_stop ~> fp_pc \in {"done", "killed"})

\* the face worker saw the stop request at its loop test and released the camera
FaceStoppedAndReleased ==
    /\ face_stop
    /\ face_pc = "done"
    /\ cap = "released"
    /\ "face" \notin verified

\* C9: with the unlock signal set at the loop test, in either mode, the main
\* thread's next steps lead to Unlocking; it does not render, poll or dispatch.
PreemptAtLoopTop ==
    [][/\ (pc = "loop" /\ unlocked_event /\ pc' # pc) =>
             (pc' = "after_loop" /\ ch' = ch /\ UNCHANGED <<password_mode,
                 password_buffer, message, desktop_index, popup_message>>)
       /\ (pc = "after_loop" /\ left_loop = "event" /\ pc' # pc) => pc' = "stop_face"
      ]_vars

\* Unlocking was reached from the loop test while in PasswordEntry
PreemptedInPasswordEntry ==
    /\ pc = "stop_face"
    /\ left_loop = "event"
    /\ password_mode
    /\ setters[1] # "password"

\* C10: a controller that reaches Unlocking invokes the launcher exactly once,
\* with the session key at the current index, and the process ends with status 0.
LaunchOnceWithSelectedKey ==
    /\ Len(launched) <= 1
    /\ Unlocking => launched = <<>>
    /\ (pc = "exited" /\ face_stop) =>
          /\ Len(launched) = 1
          /\ launched[1].choice_key = desktop_choices[desktop_index + 1]
          /\ exit_status = 0

\* the launcher has run with a key other than the first of the list
LaunchedThirdSession ==
    /\ pc = "exited"
    /\ Len(launched) = 1
    /\ desktop_index = 2
    /\ launched[1].choice_key = "kde"

ZeroSessionsExitAtStart ==
    desktop_choices = <<>> =>
        /\ pc \in {"main", "exited"}
        /\ face_pc = "idle" /\ fp_pc = "idle"
        /\ launched = <<>>
        /\ pc = "exited" => (exit_status = 1 /\ console = <<"print_no_launchable">>)

\* main has ended on the empty table
ExitedOnEmptyTable ==
    /\ desktop_choices = <<>>
    /\ pc = "exited"
    /\ exit_status = 1

\* C13: when an unexpected error leaves the render loop, the terminal is
\* restored before the error is reported and the process ends with a non-zero
\* status.
ErrorRestoresThenFails ==
    exit_cause = "error" =>
        /\ \E j \in 1..Len(console) : console[j] = "print_error"
        /\ \A j \in 1..Len(console) : console[j] = "print_error" =>
               \E i \in 1..(j - 1) : console[i] \in {"wrapper_restore", "endwin"}
        /\ exit_status # 0

\* every key of the sequence is k
AllKeys(keys, k) == \A i \in 1..Len(keys) : keys[i] = k

\* C14: Left/Right leave the index unchanged on an empty list; on a list of
\* length N >= 1, from any index, N Lefts or N Rights return the index to its
\* starting value, and so does a Left followed by a Right or the reverse.
NavigationWraps ==
    (pc # "handle" /\ trail # <<>>) =>
        LET start == trail[1]
            keys == Tail(trail)
            N == Len(desktop_choices)
        IN  /\ N = 0 => desktop_index = start
            /\ (N >= 1 /\ Len(keys) = N /\ AllKeys(keys, KEY_LEFT)) =>
                   desktop_index = start
            /\ (N >= 1 /\ Len(keys) = N /\ AllKeys(keys, KEY_RIGHT)) =>
                   desktop_index = start
            /\ keys \in {<<KEY_LEFT, KEY_RIGHT>>, <<KEY_RIGHT, KEY_LEFT>>} =>
                   desktop_index = start

\* three Lefts on three sessions, started from the middle one, have been handled
ThreeLeftsHandled ==
    /\ trail = <<1, KEY_LEFT, KEY_LEFT, KEY_LEFT>>
    /\ Len(desktop_choices) = 3
    /\ pc = "loop"
    /\ desktop_index = 1

\* C15: with a non-empty session list of length N the index is always in
\* 0..N-1, from the initial state derived from the default session onwards, and
\* the list is never read at an index it does not have; with an empty list it
\* is not read at all, neither when the main screen is drawn nor at launch.
IndexAlwaysValid ==
    /\ desktop_choices # <<>> =>
           desktop_index \in 0..(Len(desktop_choices) - 1)
    /\ ~index_error

\* an empty table: the main screen was drawn, the password was accepted and the
\* launch step took the branch that does not read the list
EmptyListDrawnAndUnlocked ==
    /\ desktop_choices = <<>>
    /\ "password" \in verified
    /\ exit_cause = "no_sessions"
    /\ ~index_error

\* C16 as stated: in PasswordEntry, handling any key code c with 32 <= c <= 255
\* appends exactly chr(c) to the password buffer and stays in PasswordEntry.
PrintableKeyAppends ==
    [][(pc = "handle" /\ password_mode /\ 32 <= ch /\ ch <= 255) =>
           /\ password_buffer' = Append(password_buffer, ch)
           /\ password_mode']_vars

\* C16 amended: the same for every code in 32..255 except 127, which the
\* handler takes as a backspace before it reaches the printable test.
PrintableKeyButDelAppends ==
    [][(pc = "handle" /\ password_mode /\ 32 <= ch /\ ch <= 255 /\ ch # KEY_DEL) =>
           /\ password_buffer' = Append(password_buffer, ch)
           /\ password_mode']_vars

\* "a" then the key with code 255 have been handled in PasswordEntry
HighCodeAppended ==
    /\ trail = <<KEY_SPACE, 97, 255>>
    /\ pc = "loop"
    /\ password_mode
    /\ password_buffer = <<97, 255>>

\* C17: in PasswordEntry a backspace key removes exactly the last character of a
\* non-empty buffer and leaves an empty buffer empty; it changes neither the UI
\* mode, the message, the session index nor the unlock signal. So a, b, c then
\* two backspaces leave the buffer equal to "a".
BackspaceRemovesLast ==
    /\ [][(pc = "handle" /\ password_mode /\ ch \in {KEY_BACKSPACE, KEY_DEL, 8}) =>
             /\ IF password_buffer = <<>>
                THEN password_buffer' = <<>>
                ELSE /\ Len(password_buffer') = Len(password_buffer) - 1
                     /\ \A i \in 1..Len(password_buffer') :
                            password_buffer'[i] = password_buffer[i]
             /\ UNCHANGED <<password_mode, message, desktop_index, unlocked_event>>]_vars
    /\ []((/\ pc # "handle"
           /\ trail = <<KEY_SPACE, 97, 98, 99, KEY_BACKSPACE, KEY_BACKSPACE>>)
              => password_buffer = <<97>>)

\* a, b, c and two backspaces have been handled
TwoBackspacesLeaveA ==
    /\ trail = <<KEY_SPACE, 97, 98, 99, KEY_BACKSPACE, KEY_BACKSPACE>>
    /\ pc = "loop"
    /\ password_mode
    /\ password_buffer = <<97>>

\* C18: a Space key in MainScreen always ends in PasswordEntry with an empty
\* buffer and an empty message, whether the exit animation ran to completion,
\* was skipped or was aborted by the unlock signal; an Escape key in
\* PasswordEntry always ends in MainScreen with an empty buffer and an empty
\* message.
SpaceAndEscapeSwitchScreens ==
    /\ [][(pc = "handle" /\ ~password_mode /\ ch = KEY_SPACE) =>
             \/ UNCHANGED mainVars
             \/ pc' = "anim" /\ anim'[1] = "out"]_vars
    /\ [][(pc = "anim" /\ anim[1] = "out") =>
             \/ /\ pc' = "anim" /\ anim'[1] = "out"
                /\ UNCHANGED <<password_mode, password_buffer, message>>
             \/ /\ pc' = "loop"
                /\ password_mode' /\ password_buffer' = <<>> /\ message' = ""]_vars
    /\ [][(pc = "handle" /\ password_mode /\ ch = KEY_ESC) =>
             \/ UNCHANGED mainVars
             \/ /\ pc' = "anim" /\ anim'[1] = "in"
                /\ ~password_mode' /\ password_buffer' = <<>> /\ message' = ""]_vars
    /\ [][(pc = "anim" /\ anim[1] = "in") =>
             /\ pc' \in {"anim", "loop"}
             /\ ~password_mode' /\ password_buffer' = <<>> /\ message' = ""]_vars

\* with animations disabled, Space has been handled and the password panel is up
SpaceHandledWithoutAnimation ==
    /\ ~CONFIG.animations
    /\ pc = "loop"
    /\ ch = -1
    /\ password_mode
    /\ password_buffer = <<>>
    /\ message = ""
    /\ unlocked_event

\* C19: within one run each worker posts to the popup at most once, however many
\* iterations it executes: a face worker with an empty reference database posts
\* "No known faces configured" once and never matches, and a fingerprint worker
\* whose verifier keeps failing posts its hint once while it keeps retrying.
EachWorkerPostsOnce ==
    /\ shows.face <= 1 /\ shows.fingerprint <= 1
    /\ face_shown => shows.face = 1
    /\ fp_shown => shows.fingerprint = 1
    /\ face_pc = "show" => (~face_shown /\ shows.face = 0)
    /\ fp_pc = "show" => (~fp_shown /\ shows.fingerprint = 0)
    /\ shows.face = 1 => ~known_faces
    /\ ~known_faces => "face" \notin verified
    /\ (shows.face = 0 /\ shows.fingerprint = 0) => popup_message = None

\* both workers have posted their hint and are in a later iteration
BothHintsPostedAndRetrying ==
    /\ ~known_faces
    /\ face_shown /\ shows.face = 1 /\ face_pc = "body"
    /\ fp_shown /\ shows.fingerprint = 1 /\ fp_pc = "body"

\* the unlock signal was written on behalf of this method
Wrote(method) == \E i \in DOMAIN setters : setters[i] = method

\* C20: a worker whose factor is disabled ends at once without opening the
\* camera, calling its verifier, posting a notification or writing the unlock
\* signal; a face worker whose camera fails to open ends without writing the
\* signal or posting; in both cases the render loop and password entry go on.
AbsentFactorIsSilent ==
    /\ ~CONFIG.face =>
           /\ face_pc \in {"idle", "run", "done", "killed"}
           /\ cap = None
           /\ shows.face = 0 /\ ~face_shown
           /\ "face" \notin verified /\ ~Wrote("face")
    /\ ~CONFIG.fingerprint =>
           /\ fp_pc \in {"idle", "run", "done", "killed"}
           /\ shows.fingerprint = 0 /\ ~fp_shown
           /\ "fingerprint" \notin verified /\ ~Wrote("fingerprint")
    /\ cap = "failed" =>
           /\ face_pc = "done"
           /\ shows.face = 0 /\ ~face_shown
           /\ "face" \notin verified /\ ~Wrote("face")

\* the camera failed to open, the fingerprint factor is disabled, and the
\* password typed on the panel unlocked and launched the session
PasswordUnlocksWithoutFactors ==
    /\ cap = "failed" /\ face_pc = "done"
    /\ ~CONFIG.fingerprint /\ fp_pc = "done"
    /\ setters = <<"password">>
    /\ launched # <<>>

ShowLeavesItsMessage ==
    /\ [][(fp_pc = "stamp" /\ fp_pc' = "loop") =>
             \/ popup_message' = MSG_FPRINT /\ popup_start_time' = "fingerprint"
             \/ popup_message' = MSG_NO_FACES]_vars
    /\ [][(face_pc = "stamp" /\ face_pc' = "loop") =>
             \/ popup_message' = MSG_NO_FACES /\ popup_start_time' = "face"
             \/ popup_message' = MSG_FPRINT]_vars

\* C23: on the grid t = i/frames the bounce easing returns 0 at t = 0 and 1 at
\* t = 1 and stays within [0, 1.01], and the cubic easing is non-decreasing in t.
\* (trail[1] is frames, trail[i + 2] the value at t = i/frames: bounce values are
\* multiples of 1/(64 frames^2).)
EasingWithinBounds ==
    LET frames == trail[1]
        one == 64 * frames * frames
    IN  /\ anim[1] = "in" =>
               /\ \A k \in 2..Len(trail) :
                      0 <= trail[k] /\ 100 * trail[k] <= 101 * one
               /\ Len(trail) >= 2 => trail[2] = 0
               /\ Len(trail) = frames + 2 => trail[frames + 2] = one
        /\ anim[1] = "out" =>
               \A k \in 2..(Len(trail) - 1) : trail[k] <= trail[k + 1]

\* the bounce has been evaluated on the whole grid of 27 frames (0.55 s at 50 fps)
BounceGridDone ==
    /\ anim = <<"in", 28>>
    /\ trail[1] = 27
    /\ Len(trail) = 29
    /\ trail[29] = 64 * 27 * 27

\* C24: once the workers are started, the process leaves the render loop and
\* ends only through the Unlocking state: no key (wrong password, Escape, arrows,
\* the interrupt key), no popup and no worker outcome other than a set unlock
\* signal makes run return or the process exit.
LeavesOnlyByUnlocking ==
    /\ left_loop \in {None, "event"}
    /\ pc = "after_loop" => unlocked_event
    /\ pc = "exited" => exit_cause \in {"launch", "no_command", "no_sessions"}

\* C25 as stated: the session key handed to the launcher is the one selected
\* when the unlock signal was set: no key dispatched after the signal has been
\* set changes the session index, the UI mode or the password buffer.
NoKeyTakesEffectAfterSignal ==
    [][(unlocked_event /\ pc = "handle") =>
           UNCHANGED <<desktop_index, password_mode, password_buffer>>]_vars

\* C25 amended: the key getch returns in the loop pass during which the signal
\* was set is still dispatched, and may change the index, the mode or the
\* buffer; no later key is read.  From the loop test that finds the signal set
\* nothing changes them, and the launcher gets the key selected at that test.
OnlyKeyInFlightAfterSignal ==
    /\ [][(unlocked_event /\ pc \in {"handle", "anim"}) =>
             pc' \in {"handle", "anim", "loop", "exited"}]_vars
    /\ [][(unlocked_event /\ pc = "loop") => pc' \in {"loop", "after_loop"}]_vars
    /\ [][(unlocked_event /\ (pc = "after_loop" \/ Unlocking)) =>
             UNCHANGED <<desktop_index, desktop_choices, password_mode,
                         password_buffer>>]_vars
    /\ [](launched # <<>> =>
             launched[1].choice_key = desktop_choices[desktop_index + 1])

\* the fingerprint worker set the signal while the password panel was up, and
\* the session was launched from there
LaunchedFromPasswordPanel ==
    /\ setters = <<"fingerprint">>
    /\ password_mode
    /\ left_loop = "event"
    /\ launched # <<>>

\* C26: for every interleaving of a worker's show with the main loop's render,
\* render never sees a message without a timestamp, so it never fails and never
\* ends the render loop.
RenderNeverSeesUnstamped ==
    [][(pc = "render" /\ pc' # pc) =>
           /\ popup_message = None \/ popup_start_time # None
           /\ pc' = "getch"]_vars

\* C27: with animations enabled and the signal not set, the shake for amplitude
\* A in 0..10 draws the panel at offsets taken in order from the repeating
\* pattern 0, +A, -A, +A/2, -A/2, 0, whose fourth and fifth offsets have equal
\* magnitude and opposite sign; with animations disabled it draws once, at 0.
\* (trail[1] is A, trail[k + 1] the offset of the k-th draw.)
ShakeFollowsSymmetricPattern ==
    (trail # <<>>) =>
        LET A == trail[1]
            half == A \div 2
            pattern == <<0, A, -A, half, -half, 0>>
        IN  /\ CONFIG.animations =>
                   \A k \in 2..Len(trail) : trail[k] = pattern[((k - 2) % 6) + 1]
            /\ (~CONFIG.animations /\ pc = "loop") => trail = <<A, 0>>

\* C28: whenever the controller is in MainScreen (password mode off) the
\* password buffer is empty and the panel message is empty; keys typed in
\* MainScreen are never added to the buffer.
MainScreenHoldsNoPassword ==
    /\ [](~password_mode => (password_buffer = <<>> /\ message = ""))
    /\ [][(pc = "handle" /\ ~password_mode) => password_buffer' = <<>>]_vars

\* back on the main screen after Escape in the password panel
BackOnMainScreenAfterEscape ==
    /\ pc = "anim"
    /\ anim[1] = "in"
    /\ ~password_mode
    /\ password_buffer = <<>>
    /\ message = ""

\* C29: the session index changes only when a Left or Right key is handled in
\* MainScreen: every key handled in PasswordEntry, every other key in
\* MainScreen, every worker step and every animation leaves the session index
\* and the session list unchanged.
IndexMovesOnlyByArrowsOnMainScreen ==
    /\ [][desktop_index' # desktop_index =>
             (pc = "handle" /\ ~password_mode /\ ch \in {KEY_LEFT, KEY_RIGHT})]_vars
    /\ [][desktop_choices' = desktop_choices]_vars

\* the index has been moved off its initial 0 and the password panel is up with
\* a character typed
IndexMovedThenPanelUsed ==
    /\ desktop_index = 1
    /\ password_mode
    /\ password_buffer = <<97>>
    /\ pc = "loop"

====
